---- MODULE Spec2Model ----
(***************************************************************************)
(* Model of the productivity/health dashboard:                             *)
(*   - the server route POST /api/ai (src/app/api/ai/route.ts) with its    *)
(*     prompt builder and its fallback suggestion generator;               *)
(*   - the client page (src/unnamed/part_000): the task list, the          *)
(*     prioritized view, getInsights, and the Markdown renderer.           *)
(*                                                                         *)
(* JavaScript strings are TLA+ strings; JavaScript values whose type the   *)
(* code does not control (JSON read from a request, optional fields) are   *)
(* records [t, n, s]: a type tag, the number and the string.               *)
(***************************************************************************)
EXTENDS Integers, Sequences, FiniteSets, TLC

VARIABLES
    \* client page state (part_000:23-39)
    tasks, taskTitle, taskEffort, taskImpact, taskDue, health,
    aiResponse, loading, error,
    prioritized,    \* the memoised display list (part_000:41-47)
    request,        \* the /api/ai call of getInsights that is in flight
    \* one call of the server route: its inputs and its response
    call, response,
    \* one call of buildFallbackSuggestions: its arguments and its result
    args, bundle,
    \* one rendering of the Markdown component: its input and its output
    content, html

clientVars == <<tasks, taskTitle, taskEffort, taskImpact, taskDue, health,
                aiResponse, loading, error, prioritized, request>>
serverVars == <<call, response>>
fallbackVars == <<args, bundle>>
markdownVars == <<content, html>>
vars == <<clientVars, serverVars, fallbackVars, markdownVars>>

-----------------------------------------------------------------------------
(* JavaScript values *)

Undefined == [t |-> "undefined", n |-> 0, s |-> ""]
Null == [t |-> "null", n |-> 0, s |-> ""]
NaN == [t |-> "nan", n |-> 0, s |-> ""]
True == [t |-> "boolean", n |-> 1, s |-> ""]
False == [t |-> "boolean", n |-> 0, s |-> ""]
Num(n) == [t |-> "number", n |-> n, s |-> ""]
Str(s) == [t |-> "string", n |-> 0, s |-> s]

Min(a, b) == IF a < b THEN a ELSE b

\* v ?? d
Nullish(v, d) == IF v.t \in {"undefined", "null"} THEN d ELSE v

\* the condition of `if (v)`, `v ? a : b`, `!v`
Truthy(v) ==
    CASE v.t \in {"undefined", "null", "nan"} -> FALSE
      [] v.t \in {"number", "boolean"} -> v.n # 0
      [] v.t = "string" -> v.s # ""
      [] OTHER -> TRUE

CharAt(s, i) == SubSeq(s, i, i)

WhiteSpace == {" ", "\t", "\n", "\r"}

RECURSIVE TrimStart(_)
TrimStart(s) ==
    IF Len(s) > 0 /\ CharAt(s, 1) \in WhiteSpace
    THEN TrimStart(SubSeq(s, 2, Len(s))) ELSE s

RECURSIVE TrimEnd(_)
TrimEnd(s) ==
    IF Len(s) > 0 /\ CharAt(s, Len(s)) \in WhiteSpace
    THEN TrimEnd(SubSeq(s, 1, Len(s) - 1)) ELSE s

\* String.prototype.trim
Trim(s) == TrimEnd(TrimStart(s))

Digits == <<"0", "1", "2", "3", "4", "5", "6", "7", "8", "9">>

DigitValue(c) == CHOOSE d \in 0..9 : Digits[d + 1] = c

IsDigits(s) == \A i \in 1..Len(s) : \E d \in 0..9 : Digits[d + 1] = CharAt(s, i)

RECURSIVE ParseDigits(_)
ParseDigits(s) ==
    IF Len(s) = 0 THEN 0
    ELSE 10 * ParseDigits(SubSeq(s, 1, Len(s) - 1)) + DigitValue(CharAt(s, Len(s)))

\* Number(v).  Strings: surrounding white space is dropped, the empty string
\* is 0, an unsigned decimal integer is its value, any other text is NaN
\* (signs, fractions and exponents are outside the inputs enumerated here).
ToNumber(v) ==
    CASE v.t = "number" -> v
      [] v.t = "boolean" -> Num(v.n)
      [] v.t = "null" -> Num(0)
      [] v.t = "string" ->
            IF IsDigits(Trim(v.s)) THEN Num(ParseDigits(Trim(v.s))) ELSE NaN
      [] OTHER -> NaN

\* a < b on the results of Number(): false whenever an operand is NaN
LessThan(a, b) == a.t = "number" /\ b.t = "number" /\ a.n < b.n

\* a <= b, v being any value and b a number literal
LessEq(v, b) == ToNumber(v).t = "number" /\ ToNumber(v).n <= b

RECURSIVE Join(_, _)
Join(lines, sep) ==
    IF Len(lines) = 0 THEN ""
    ELSE IF Len(lines) = 1 THEN lines[1]
    ELSE lines[1] \o sep \o Join(Tail(lines), sep)

RECURSIVE NatToString(_)
NatToString(n) ==
    IF n < 10 THEN Digits[n + 1] ELSE NatToString(n \div 10) \o Digits[(n % 10) + 1]

\* `${v}` in a template literal, String(v)
StringOf(v) ==
    CASE v.t = "string" -> v.s
      [] v.t = "number" -> IF v.n < 0 THEN "-" \o NatToString(-v.n) ELSE NatToString(v.n)
      [] v.t = "boolean" -> IF v.n = 1 THEN "true" ELSE "false"
      [] v.t = "nan" -> "NaN"
      [] v.t = "object" -> "[object Object]"
      [] OTHER -> v.t

\* a * b and a - b: the operands go through Number(), NaN is contagious
Times(a, b) ==
    IF ToNumber(a).t = "number" /\ ToNumber(b).t = "number"
    THEN Num(ToNumber(a).n * ToNumber(b).n) ELSE NaN

Minus(a, b) ==
    IF ToNumber(a).t = "number" /\ ToNumber(b).t = "number"
    THEN Num(ToNumber(a).n - ToNumber(b).n) ELSE NaN

-----------------------------------------------------------------------------
(* Array.prototype.sort with a comparator: a stable sort.  cmp[a, b] is the  *)
(* comparator's result on two elements, as a value; NaN counts as 0         *)
(* (the elements are left in order).                                        *)

Elements(s) == {s[i] : i \in 1..Len(s)}

ComesAfter(cmp, a, b) == cmp[a, b].t = "number" /\ cmp[a, b].n > 0

\* x inserted into the sorted s behind every element it does not precede
RECURSIVE Insert(_, _, _)
Insert(cmp, s, x) ==
    IF Len(s) = 0 THEN <<x>>
    ELSE IF ComesAfter(cmp, s[Len(s)], x)
         THEN Insert(cmp, SubSeq(s, 1, Len(s) - 1), x) \o <<s[Len(s)]>>
         ELSE s \o <<x>>

RECURSIVE Sort(_, _)
Sort(cmp, s) ==
    IF Len(s) = 0 THEN <<>>
    ELSE Insert(cmp, Sort(cmp, SubSeq(s, 1, Len(s) - 1)), s[Len(s)])

-----------------------------------------------------------------------------
(* Tasks and health records as the server route reads them from JSON.      *)
(* A task entry is [t, title, effort, impact, due, done]: t is the type of *)
(* the array element ("object", or "null" for a JSON null), the rest are   *)
(* the values of its properties, Undefined when the property is absent.    *)

TaskEntry(title, impact, effort, due, done) ==
    [t |-> "object", title |-> title, impact |-> impact, effort |-> effort,
     due |-> due, done |-> done]

NullEntry == [t |-> "null", title |-> Undefined, impact |-> Undefined,
              effort |-> Undefined, due |-> Undefined, done |-> Undefined]

EmptyHealth == [sleepHours |-> Undefined, waterCups |-> Undefined,
                steps |-> Undefined, breaksPerHour |-> Undefined, mood |-> Undefined]

SleepTarget == 7
WaterTarget == 8
StepsTarget == 8000
BreaksTarget == 2
TopCount == 5
QuickWinCount == 5

Filler == "Inbox sweep: archive or assign 10 emails."

SleepLow == "Aim for 7?9h tonight; set a fixed shutdown time."
SleepOk == "Protect your sleep window; no screens 1h before bed."
WaterLow == "Place a full bottle on desk; 2 cups by 10am, 4 by 2pm."
WaterOk == "Maintain hydration cadence: 1 cup per hour during work."
StepsLow == "Insert two 10-min walks (midday and late afternoon) to hit 8?10k steps."
StepsOk == "Keep step streak with a brisk 20-min walk post-lunch."
BreaksLow == "Use 50/10 focus cycles; micro-stretch each break."
BreaksOk == "Sustain 50/10 cadence; add 2x mobility breaks (AM/PM)."

Plan ==
    "09:00?11:00 Deep Work: top priority\n" \o
    "11:00?11:10 Break + hydration\n" \o
    "11:10?12:30 Deep Work: priority #2\n" \o
    "12:30?13:15 Lunch + 10-min walk\n" \o
    "13:15?15:00 Execution: small tasks\n" \o
    "15:00?15:10 Break + mobility\n" \o
    "15:10?16:30 Execution: priority #3\n" \o
    "16:30?17:00 Wrap-up & plan tomorrow"

\* the property read t.done of an array element: a TypeError on null
ReadThrows(entries) == \E i \in 1..Len(entries) : entries[i].t = "null"

\* tasks.filter((t) => !t.done)
Incomplete(entries) == SelectSeq(entries, LAMBDA t : ~Truthy(t.done))

\* the comparator of the server's sort: b.impact*2 - b.effort - (a.impact*2 - a.effort)
FallbackCompare(a, b) ==
    Minus(Minus(Times(b.impact, Num(2)), b.effort),
          Minus(Times(a.impact, Num(2)), a.effort))

\* [...incomplete].sort(...)
FallbackPrioritized(entries) ==
    Sort([a \in Elements(entries), b \in Elements(entries) |-> FallbackCompare(a, b)],
         Incomplete(entries))

TopLine(t) ==
    StringOf(t.title) \o " ? do soon (impact " \o StringOf(t.impact)
        \o ", effort " \o StringOf(t.effort) \o ")"

Top(entries) ==
    [i \in 1..Min(TopCount, Len(FallbackPrioritized(entries))) |->
        TopLine(FallbackPrioritized(entries)[i])]

\* Number(health.x ?? 0)
Metric(v) == ToNumber(Nullish(v, Num(0)))

\* if (metric < target) habits.push(low) else habits.push(ok)
Tip(v, target, low, ok) == IF LessThan(Metric(v), Num(target)) THEN low ELSE ok

MetricHabits(h) ==
    << Tip(h.sleepHours, SleepTarget, SleepLow, SleepOk),
       Tip(h.waterCups, WaterTarget, WaterLow, WaterOk),
       Tip(h.steps, StepsTarget, StepsLow, StepsOk),
       Tip(h.breaksPerHour, BreaksTarget, BreaksLow, BreaksOk) >>

\* a variant that pushes the note behind the metric tips
HabitsNoteLast(h, note) ==
    IF Truthy(note) THEN MetricHabits(h) \o <<"(Note) " \o StringOf(note)>>
    ELSE MetricHabits(h)

\* if (note) habits.unshift(`(Note) ${note}`)
Habits(h, note) ==
    IF Truthy(note) THEN <<"(Note) " \o StringOf(note)>> \o MetricHabits(h)
    ELSE MetricHabits(h)

LowEffort(entries) == SelectSeq(Incomplete(entries), LAMBDA t : LessEq(t.effort, 2))

QuickWinLine(t) == "Start: " \o StringOf(t.title) \o " (<=10m setup)"

\* a variant that pads without the slice(0, 5)
QuickWinsUnsliced(entries) ==
    [i \in 1..(IF Len(LowEffort(entries)) > QuickWinCount
                THEN Len(LowEffort(entries)) ELSE QuickWinCount) |->
        IF i <= Len(LowEffort(entries)) THEN QuickWinLine(LowEffort(entries)[i])
        ELSE Filler]

\* while (quickWins.length < 5) quickWins.push(filler)
QuickWins(entries) ==
    [i \in 1..QuickWinCount |->
        IF i <= Len(LowEffort(entries)) THEN QuickWinLine(LowEffort(entries)[i])
        ELSE Filler]

buildFallbackSuggestions(entries, h, note) ==
    [plan |-> Plan, habits |-> Habits(h, note),
     quickWins |-> QuickWins(entries), top |-> Top(entries)]

-----------------------------------------------------------------------------
(* The client page (part_000).  A stored task is                            *)
(* [id, title, effort, impact, due, done]; due = "" is `undefined`.         *)

\* a variant without the due-date bonus (the comparator of the server)
ScoreWithoutDue(t) == t.impact * 2 - t.effort

\* const scoreA = a.impact * 2 - a.effort + (a.due ? 1 : 0)
Score(t) == t.impact * 2 - t.effort + (IF t.due # "" THEN 1 ELSE 0)

\* return scoreB - scoreA
ClientCompare(a, b) == Num(Score(b) - Score(a))

\* [...tasks].sort(...)
Prioritized(ts) ==
    Sort([a \in Elements(ts), b \in Elements(ts) |-> ClientCompare(a, b)], ts)

DefaultHealth == [sleepHours |-> 7, waterCups |-> 6, steps |-> 6000,
                  breaksPerHour |-> 2, mood |-> "ok"]

\* JSON.stringify({ tasks, health }) read back by req.json(): numbers and
\* strings keep their values, a property that is undefined is dropped
TaskJson(t) ==
    TaskEntry(Str(t.title), Num(t.impact), Num(t.effort),
              IF t.due = "" THEN Undefined ELSE Str(t.due),
              IF t.done THEN True ELSE False)

HealthJson(h) ==
    [sleepHours |-> Num(h.sleepHours), waterCups |-> Num(h.waterCups),
     steps |-> Num(h.steps), breaksPerHour |-> Num(h.breaksPerHour),
     mood |-> Str(h.mood)]


NoArgs == [tasks |-> <<>>, health |-> EmptyHealth, note |-> Undefined]
NoBundle == [plan |-> "", habits |-> <<>>, quickWins |-> <<>>, top |-> <<>>]
InitFallback == args = NoArgs /\ bundle = NoBundle

NoBody == [json |-> "none", tasks |-> [t |-> "undefined", items |-> <<>>],
           health |-> [t |-> "undefined", fields |-> EmptyHealth]]
NoCall == [body |-> NoBody, apiKey |-> Undefined,
           up |-> [kind |-> "none", text |-> "", content |-> Undefined]]
NoResponse == [status |-> 0, provider |-> Undefined, content |-> Undefined,
               suggestions |-> NoBundle, error |-> Undefined]
InitServer == call = NoCall /\ response = NoResponse

NoRequest == [sent |-> FALSE,
              outcome |-> [rejected |-> FALSE, message |-> "", reply |-> NoResponse]]


InitClient ==
    /\ tasks = <<>>
    /\ taskTitle = ""
    /\ taskEffort = 2
    /\ taskImpact = 3
    /\ taskDue = ""
    /\ health = DefaultHealth
    /\ aiResponse = Null
    /\ loading = FALSE
    /\ error = Null
    /\ prioritized = <<>>
    /\ request = NoRequest

InitMarkdown == content = "" /\ html = Null

-----------------------------------------------------------------------------
(* SpecFallback: buildFallbackSuggestions applied to bounded inputs.        *)

MaxTasks == 6       \* longest task list, with the two health records below
MaxFew == 1         \* longest task list, with every health record

TaskA == TaskEntry(Str("A"), Num(3), Num(2), Undefined, False)
TaskB == TaskEntry(Str("B"), Num(3), Num(2), Str("2024-01-01"), False)
TaskC == TaskEntry(Str("C"), Num(5), Num(4), Undefined, Undefined)
TaskD == TaskEntry(Str("D"), Num(2), Num(1), Undefined, True)
TaskPool == {TaskA, TaskB, TaskC, TaskD}

TaskLists(n) == UNION {[1..k -> TaskPool] : k \in 0..n}

\* a metric absent, null, just below and at its target, not numeric, numeric text
MetricValues(target) ==
    {Undefined, Null, Num(target - 1), Num(target), Str("abc"),
     Str(NatToString(target))}

HealthRecords ==
    [sleepHours : MetricValues(SleepTarget), waterCups : MetricValues(WaterTarget),
     steps : MetricValues(StepsTarget), breaksPerHour : MetricValues(BreaksTarget),
     mood : {Str("ok")}]

Notes == {Undefined, Str(""), Str("AI error: x")}

FallbackInputs ==
    [tasks : TaskLists(MaxTasks), health : {EmptyHealth, HealthJson(DefaultHealth)},
     note : Notes]
    \cup [tasks : TaskLists(MaxFew), health : HealthRecords, note : Notes]

InitFallbackCall ==
    /\ InitClient /\ InitServer /\ InitMarkdown
    /\ args \in FallbackInputs
    /\ bundle = NoBundle

Generate ==
    /\ bundle = NoBundle
    /\ bundle' = buildFallbackSuggestions(args.tasks, args.health, args.note)
    /\ UNCHANGED <<args, clientVars, serverVars, markdownVars>>

NextFallback == Generate

SpecFallback == InitFallbackCall /\ [][NextFallback]_vars

Generated == bundle # NoBundle

-----------------------------------------------------------------------------
(* The route POST /api/ai (route.ts:5-69).                                  *)
(* A request body is [json, tasks, health]: json is "invalid" when           *)
(* req.json() rejects, "null" for the JSON text null, "object" otherwise;   *)
(* tasks is [t, items] and health is [t, fields], t being the type of the   *)
(* property's value.                                                        *)

EmptyArray == [t |-> "array", items |-> <<>>]
EmptyObject == [t |-> "object", fields |-> EmptyHealth]

\* body?.tasks ?? [] after req.json().catch(() => ({}))
TasksOf(body) ==
    IF body.json # "object" \/ body.tasks.t \in {"undefined", "null"}
    THEN EmptyArray ELSE body.tasks

\* body?.health ?? {}
HealthOf(body) ==
    IF body.json # "object" \/ body.health.t \in {"undefined", "null"}
    THEN EmptyObject ELSE body.health

\* health.sleepHours etc.: undefined on a value that is no object
Fields(hv) == IF hv.t = "object" THEN hv.fields ELSE EmptyHealth

\* tasks.filter(...) and tasks.slice(0, 30).map(...) are a TypeError unless
\* tasks is an array, and so is reading a property of a null element
TypeError(tv) == tv.t # "array" \/ ReadThrows(tv.items)

Reply(status, provider, text, suggestions, err) ==
    [status |-> status, provider |-> provider, content |-> text,
     suggestions |-> suggestions, error |-> err]

\* NextResponse.json({ provider: "fallback", suggestions })
FallbackReply(b) == Reply(200, Str("fallback"), Undefined, b, Undefined)
\* NextResponse.json({ provider: "openai", content })
ModelReply(c) == Reply(200, Str("openai"), c, NoBundle, Undefined)
\* NextResponse.json({ error: err?.message ?? "Unexpected error" }, { status: 500 })
ErrorReply(msg) == Reply(500, Undefined, Undefined, NoBundle, Str(msg))

Pending == NoResponse

\* route.ts:7-29: up to the fetch.  Pending when the fetch is issued.
BeforeFetch(body, apiKey) ==
    IF ~Truthy(apiKey)
    THEN IF TypeError(TasksOf(body))
         THEN ErrorReply("tasks.filter is not a function")
         ELSE FallbackReply(buildFallbackSuggestions(
                  TasksOf(body).items, Fields(HealthOf(body)), Undefined))
    ELSE IF TypeError(TasksOf(body))        \* thrown by buildPrompt
         THEN ErrorReply("tasks.slice(...).map is not a function")
         ELSE Pending

\* route.ts:54-68: once the fetch has settled.  up is [kind, text, content]:
\* the fetch rejected (network), a status that is not ok with its body text,
\* a body that is no JSON, or a completion with its content
AfterFetch(body, up) ==
    CASE up.kind = "network" -> ErrorReply(up.text)
      [] up.kind = "status" ->
            FallbackReply(buildFallbackSuggestions(
                TasksOf(body).items, Fields(HealthOf(body)),
                Str("AI error: " \o up.text)))
      [] up.kind = "badjson" -> ErrorReply(up.text)
      [] OTHER -> ModelReply(Nullish(up.content, Str("")))

POST(body, apiKey, up) ==
    IF BeforeFetch(body, apiKey) = Pending THEN AfterFetch(body, up)
    ELSE BeforeFetch(body, apiKey)

Settled(kind, text, c) == [kind |-> kind, text |-> text, content |-> c]

\* what the model service may do with one request
Upstream ==
    { Settled("network", "fetch failed", Undefined),
      Settled("status", "quota exceeded", Undefined),
      Settled("status", "", Undefined),
      Settled("badjson", "Unexpected token < in JSON at position 0", Undefined),
      Settled("ok", "", Str("## Plan\n- focus")),
      Settled("ok", "", Str("")),
      Settled("ok", "", Undefined) }

NotSettled == Settled("none", "", Undefined)

-----------------------------------------------------------------------------
(* SpecServer: one request to the route, from any body.                     *)

MaxItems == 2       \* longest tasks array of a request body

EntryPool ==
    { TaskA, TaskD, NullEntry,
      TaskEntry(Undefined, Undefined, Undefined, Undefined, Undefined),
      TaskEntry(Str("E"), Num(1), Num(5), Undefined, Undefined) }

TasksValues ==
    [t : {"undefined", "null", "string", "number", "object"}, items : {<<>>}]
    \cup [t : {"array"}, items : UNION {[1..k -> EntryPool] : k \in 0..MaxItems}]

HealthValues ==
    [t : {"undefined", "null", "string", "number"}, fields : {EmptyHealth}]
    \cup [t : {"object"},
          fields : {EmptyHealth, HealthJson(DefaultHealth),
                    [HealthJson(DefaultHealth) EXCEPT !.steps = Str("many")]}]

Bodies ==
    [json : {"invalid", "null"}, tasks : {NoBody.tasks}, health : {NoBody.health}]
    \cup [json : {"object"}, tasks : TasksValues, health : HealthValues]

ApiKeys == {Undefined, Str(""), Str("sk-test")}

InitServerCall ==
    /\ InitClient /\ InitFallback /\ InitMarkdown
    /\ call \in [body : Bodies, apiKey : ApiKeys, up : {NotSettled}]
    /\ response = Pending

\* the handler runs to its response, or to the await of the fetch
Handle ==
    /\ response = Pending /\ call.up = NotSettled
    /\ BeforeFetch(call.body, call.apiKey) # Pending
    /\ response' = BeforeFetch(call.body, call.apiKey)
    /\ UNCHANGED <<call, clientVars, fallbackVars, markdownVars>>

\* the fetch settles and the handler runs on to its response
FetchSettles ==
    /\ response = Pending /\ call.up = NotSettled
    /\ BeforeFetch(call.body, call.apiKey) = Pending
    /\ \E up \in Upstream :
          /\ call' = [call EXCEPT !.up = up]
          /\ response' = AfterFetch(call.body, up)
    /\ UNCHANGED <<clientVars, fallbackVars, markdownVars>>

NextServer == Handle \/ FetchSettles

SpecServer == InitServerCall /\ [][NextServer]_vars

Responded == response # Pending

-----------------------------------------------------------------------------
(* The client page.  Handlers run to completion one at a time; the page     *)
(* re-renders after each, which recomputes the memoised `prioritized`.      *)
(* No handler of the planner card reads or writes the state of the insights *)
(* card and none of the insights card writes the planner's, so the two are  *)
(* explored under two specifications: Spec and SpecInsights.                *)

MaxStored == 2      \* tasks the user adds

Titles == {"", "  ", " A "}
Impacts == {2, 3}
Efforts == {2, 3}
Dues == {"", "2024-01-01"}
SleepInputs == {6, 7}

SetTaskTitle ==
    /\ \E v \in Titles : taskTitle' = v
    /\ UNCHANGED <<tasks, taskEffort, taskImpact, taskDue, health, aiResponse,
                   loading, error, prioritized, request>>
    /\ UNCHANGED <<serverVars, fallbackVars, markdownVars>>

SetTaskImpact ==
    /\ \E v \in Impacts : taskImpact' = v
    /\ UNCHANGED <<tasks, taskTitle, taskEffort, taskDue, health, aiResponse,
                   loading, error, prioritized, request>>
    /\ UNCHANGED <<serverVars, fallbackVars, markdownVars>>

SetTaskEffort ==
    /\ \E v \in Efforts : taskEffort' = v
    /\ UNCHANGED <<tasks, taskTitle, taskImpact, taskDue, health, aiResponse,
                   loading, error, prioritized, request>>
    /\ UNCHANGED <<serverVars, fallbackVars, markdownVars>>

SetTaskDue ==
    /\ \E v \in Dues : taskDue' = v
    /\ UNCHANGED <<tasks, taskTitle, taskEffort, taskImpact, health, aiResponse,
                   loading, error, prioritized, request>>
    /\ UNCHANGED <<serverVars, fallbackVars, markdownVars>>

\* setHealth({ ...health, sleepHours: Number(e.target.value) })
SetHealth ==
    /\ \E v \in SleepInputs : health' = [health EXCEPT !.sleepHours = v]
    /\ UNCHANGED <<tasks, taskTitle, taskEffort, taskImpact, taskDue, aiResponse,
                   loading, error, prioritized, request>>
    /\ UNCHANGED <<serverVars, fallbackVars, markdownVars>>

\* crypto.randomUUID(): an id no stored task has (tasks are never removed)
FreshId(ts) == Len(ts) + 1

NewTask(ts, title, effort, impact, due) ==
    [id |-> FreshId(ts), title |-> Trim(title), effort |-> effort,
     impact |-> impact, due |-> due, done |-> FALSE]

\* setTasks((prev) => [...prev, task])
Added(ts, task) == Append(ts, task)

AddTask ==
    /\ Len(tasks) < MaxStored
    /\ IF Trim(taskTitle) = ""
       THEN UNCHANGED <<tasks, prioritized, taskTitle, taskEffort, taskImpact, taskDue>>
       ELSE /\ tasks' = Added(tasks, NewTask(tasks, taskTitle, taskEffort, taskImpact, taskDue))
            /\ prioritized' = Prioritized(tasks')
            /\ taskTitle' = ""
            /\ taskEffort' = 2
            /\ taskImpact' = 3
            /\ taskDue' = ""
    /\ UNCHANGED <<health, aiResponse, loading, error, request>>
    /\ UNCHANGED <<serverVars, fallbackVars, markdownVars>>

\* prev.map((t) => (t.id === id ? { ...t, done: !t.done } : t))
Toggled(ts, id) ==
    [i \in 1..Len(ts) |-> IF ts[i].id = id THEN [ts[i] EXCEPT !.done = ~ts[i].done] ELSE ts[i]]

\* the checkbox of a displayed task
ToggleDone ==
    /\ \E i \in 1..Len(prioritized) :
          /\ tasks' = Toggled(tasks, prioritized[i].id)
          /\ prioritized' = Prioritized(tasks')
    /\ UNCHANGED <<taskTitle, taskEffort, taskImpact, taskDue, health, aiResponse,
                   loading, error, request>>
    /\ UNCHANGED <<serverVars, fallbackVars, markdownVars>>

\* part_000:87-100
FallbackMarkdown(b) ==
    Join(<<"## Personalized Plan", "", b.plan, "", "## Habit Tweaks", "">>
         \o [i \in 1..Len(b.habits) |-> "- " \o b.habits[i]]
         \o <<"", "## Quick Wins", "">>
         \o [i \in 1..Len(b.quickWins) |-> "- " \o b.quickWins[i]], "\n")

\* JSON.stringify({ tasks, health })
BodyJson(ts, h) ==
    [json |-> "object",
     tasks |-> [t |-> "array", items |-> [i \in 1..Len(ts) |-> TaskJson(ts[i])]],
     health |-> [t |-> "object", fields |-> HealthJson(h)]]

\* the body text of a reply that is not ok: JSON.stringify({ error })
ErrorText(reply) == "{\"error\":\"" \o reply.error.s \o "\"}"

Rejected == [rejected |-> TRUE, message |-> "Failed to fetch", reply |-> Pending]
Answered(reply) == [rejected |-> FALSE, message |-> "", reply |-> reply]

ClientApiKeys == {Undefined, Str("sk-test")}
ClientUpstream ==
    { Settled("network", "fetch failed", Undefined),
      Settled("status", "quota exceeded", Undefined),
      Settled("ok", "", Str("## Plan\n- focus")),
      Settled("ok", "", Undefined) }

\* how the fetch of /api/ai can settle for a body: it rejects, or the route
\* answers as POST does under some credential and some upstream behaviour
Outcomes(body) ==
    {Rejected} \cup {Answered(POST(body, k, up)) : k \in ClientApiKeys, up \in ClientUpstream}

\* part_000:73-81: up to the await of the fetch.  The request is kept with
\* the outcome it will settle to, fixed by the body sent and by the network.
GetInsights ==
    /\ ~loading                                 \* <button disabled={loading}>
    /\ loading' = TRUE
    /\ error' = Null
    /\ aiResponse' = Null
    /\ \E o \in Outcomes(BodyJson(tasks, health)) :
          request' = [sent |-> TRUE, outcome |-> o]
    /\ UNCHANGED <<tasks, taskTitle, taskEffort, taskImpact, taskDue, health, prioritized>>
    /\ UNCHANGED <<serverVars, fallbackVars, markdownVars>>

\* setError(e?.message || "Failed to get insights")
Caught(message) == Str(IF message # "" THEN message ELSE "Failed to get insights")

\* part_000:84-104
Shown(data) ==
    IF Truthy(data.content) THEN data.content
    ELSE IF data.suggestions # NoBundle THEN Str(FallbackMarkdown(data.suggestions))
    ELSE Str("No insights returned.")

\* a variant without the `finally`: a failure leaves the loading flag set
InsightsSettleNoFinally ==
    /\ request.sent
    /\ IF request.outcome.rejected
       THEN error' = Caught(request.outcome.message) /\ UNCHANGED <<aiResponse, loading>>
       ELSE IF request.outcome.reply.status # 200
       THEN error' = Caught(ErrorText(request.outcome.reply))
            /\ UNCHANGED <<aiResponse, loading>>
       ELSE aiResponse' = Shown(request.outcome.reply) /\ loading' = FALSE
            /\ UNCHANGED error
    /\ request' = NoRequest
    /\ UNCHANGED <<tasks, taskTitle, taskEffort, taskImpact, taskDue, health, prioritized>>
    /\ UNCHANGED <<serverVars, fallbackVars, markdownVars>>

\* part_000:82-109: the fetch has settled
InsightsSettle ==
    /\ request.sent
    /\ IF request.outcome.rejected
       THEN error' = Caught(request.outcome.message) /\ UNCHANGED aiResponse
       ELSE IF request.outcome.reply.status # 200
       THEN error' = Caught(ErrorText(request.outcome.reply)) /\ UNCHANGED aiResponse
       ELSE aiResponse' = Shown(request.outcome.reply) /\ UNCHANGED error
    /\ loading' = FALSE
    /\ request' = NoRequest
    /\ UNCHANGED <<tasks, taskTitle, taskEffort, taskImpact, taskDue, health, prioritized>>
    /\ UNCHANGED <<serverVars, fallbackVars, markdownVars>>

Init == InitClient /\ InitServer /\ InitFallback /\ InitMarkdown

\* the planner card: the form and the task list
Next ==
    \/ SetTaskTitle \/ SetTaskImpact \/ SetTaskEffort \/ SetTaskDue
    \/ AddTask \/ ToggleDone

Spec == Init /\ [][Next]_vars

\* the insights card, with the user going on adding tasks (sliders and date
\* left at their defaults), ticking them off and editing the health record
\* while a request is in flight
NextInsights ==
    \/ SetTaskTitle \/ AddTask \/ ToggleDone \/ SetHealth
    \/ GetInsights \/ InsightsSettle

SpecInsights == Init /\ [][NextInsights]_vars

\* the fetch of getInsights settles: it returns or it fails
FairInsights == SpecInsights /\ WF_vars(InsightsSettle)

-----------------------------------------------------------------------------
(* The Markdown component (part_000:257-300).                               *)

StartsWith(s, prefix) == Len(s) >= Len(prefix) /\ SubSeq(s, 1, Len(prefix)) = prefix

\* s.slice(n)
Slice(s, n) == SubSeq(s, n + 1, Len(s))

\* the position of the first "\n" of s, 0 when it has none
RECURSIVE NewlineFrom(_, _)
NewlineFrom(s, i) ==
    IF i > Len(s) THEN 0
    ELSE IF CharAt(s, i) = "\n" THEN i ELSE NewlineFrom(s, i + 1)

\* content.split(/\r?\n/)
RECURSIVE SplitLines(_)
SplitLines(s) ==
    LET j == NewlineFrom(s, 1)
        e == IF j > 1 /\ CharAt(s, j - 1) = "\r" THEN j - 2 ELSE j - 1
    IN  IF j = 0 THEN <<s>>
        ELSE <<SubSeq(s, 1, e)>> \o SplitLines(Slice(s, j))

\* s.replaceAll(c, r) for a one-character c
RECURSIVE ReplaceAll(_, _, _)
ReplaceAll(s, c, r) ==
    IF Len(s) = 0 THEN ""
    ELSE (IF CharAt(s, 1) = c THEN r ELSE CharAt(s, 1)) \o ReplaceAll(Slice(s, 1), c, r)

\* a variant that replaces the ampersand last
escapeHtmlAmpLast(s) ==
    ReplaceAll(ReplaceAll(ReplaceAll(ReplaceAll(ReplaceAll(s,
        "<", "&lt;"), ">", "&gt;"), "\"", "&quot;"), "'", "&#039;"), "&", "&amp;")

escapeHtml(s) ==
    ReplaceAll(ReplaceAll(ReplaceAll(ReplaceAll(ReplaceAll(s,
        "&", "&amp;"), "<", "&lt;"), ">", "&gt;"), "\"", "&quot;"), "'", "&#039;")

\* part_000:263-268
Fragment(line) ==
    IF StartsWith(line, "### ") THEN "<h3>" \o escapeHtml(Slice(line, 4)) \o "</h3>"
    ELSE IF StartsWith(line, "## ") THEN "<h2>" \o escapeHtml(Slice(line, 3)) \o "</h2>"
    ELSE IF StartsWith(line, "# ") THEN "<h1>" \o escapeHtml(Slice(line, 2)) \o "</h1>"
    ELSE IF StartsWith(line, "- ") THEN "<li>" \o escapeHtml(Slice(line, 2)) \o "</li>"
    ELSE IF Trim(line) = "" THEN "<br/>"
    ELSE "<p>" \o escapeHtml(line) \o "</p>"

Fragments(lines) == [i \in 1..Len(lines) |-> Fragment(lines[i])]

\* flush(): merged.push(`<ul>${buffer.join("")}</ul>`) when the buffer holds items
Flush(merged, buffer) ==
    IF Len(buffer) > 0 THEN Append(merged, "<ul>" \o Join(buffer, "") \o "</ul>")
    ELSE merged

\* a variant whose loop does not flush at a fragment that is no item
RECURSIVE MergeKeepingBuffer(_, _, _, _)
MergeKeepingBuffer(out, i, merged, buffer) ==
    IF i > Len(out) THEN Flush(merged, buffer)
    ELSE IF StartsWith(out[i], "<li>")
         THEN MergeKeepingBuffer(out, i + 1, merged, Append(buffer, out[i]))
         ELSE MergeKeepingBuffer(out, i + 1, Append(merged, out[i]), buffer)

\* part_000:279-286: the loop from fragment i on, and the flush behind it
RECURSIVE Merge(_, _, _, _)
Merge(out, i, merged, buffer) ==
    IF i > Len(out) THEN Flush(merged, buffer)
    ELSE IF StartsWith(out[i], "<li>")
         THEN Merge(out, i + 1, merged, Append(buffer, out[i]))
         ELSE Merge(out, i + 1, Append(Flush(merged, buffer), out[i]), <<>>)

Markdown(text) == Join(Merge(Fragments(SplitLines(text)), 1, <<>>, <<>>), "")

-----------------------------------------------------------------------------
(* SpecMarkdown: the renderer applied to bounded texts.                     *)

MaxLines == 3       \* lines of a text

LinePool ==
    { "", " ", "- a", "- <b>&", "# \"q\"", "## it's", "### &amp;", "<script> -x" }

LineBreaks == {"\n", "\r\n"}

Texts ==
    {Join(ls, br) : ls \in UNION {[1..k -> LinePool] : k \in 1..MaxLines},
                    br \in LineBreaks}

InitRender ==
    /\ InitClient /\ InitServer /\ InitFallback
    /\ content \in Texts
    /\ html = Null

Render ==
    /\ html = Null
    /\ html' = Str(Markdown(content))
    /\ UNCHANGED <<content, clientVars, serverVars, fallbackVars>>

NextMarkdown == Render

SpecMarkdown == InitRender /\ [][NextMarkdown]_vars

Rendered == html # Null

-----------------------------------------------------------------------------
(* Properties of the Markdown component (SpecMarkdown).                     *)

\* the number of places where sub occurs in s
CountSub(s, sub) ==
    Cardinality({i \in 1..(Len(s) - Len(sub) + 1) : SubSeq(s, i, i + Len(sub) - 1) = sub})

RECURSIVE Sum(_)
Sum(ns) == IF Len(ns) = 0 THEN 0 ELSE ns[1] + Sum(Tail(ns))

\* the lines of the text being rendered
Lines == SplitLines(content)

IsItem(line) == Len(line) >= 2 /\ SubSeq(line, 1, 2) = "- "

\* line i opens a run of list lines / closes one
OpensRun(i) == IsItem(Lines[i]) /\ (i = 1 \/ ~IsItem(Lines[i - 1]))
ClosesRun(i) == IsItem(Lines[i]) /\ (i = Len(Lines) \/ ~IsItem(Lines[i + 1]))

Runs == Cardinality({i \in 1..Len(Lines) : OpensRun(i)})

\* C8: each maximal run of consecutive "- " lines is wrapped in exactly one
\* <ul> holding one <li> per line of the run, in order; a line that is no list
\* line closes the open list, and a list open at the end of input is closed.
C8_OneListPerRun ==
    Rendered =>
        /\ html.s = Join([i \in 1..Len(Lines) |->
                            (IF OpensRun(i) THEN "<ul>" ELSE "") \o Fragment(Lines[i])
                                \o (IF ClosesRun(i) THEN "</ul>" ELSE "")], "")
        /\ CountSub(html.s, "<ul>") = Runs
        /\ CountSub(html.s, "</ul>") = Runs
        /\ CountSub(html.s, "<li>") = Cardinality({i \in 1..Len(Lines) : IsItem(Lines[i])})

\* a list line, a line that is no list line, and a list line at the end of
\* the input: two lists
C8_Witness ==
    /\ Rendered
    /\ Len(Lines) = 3
    /\ IsItem(Lines[1]) /\ ~IsItem(Lines[2]) /\ IsItem(Lines[3])
    /\ CountSub(html.s, "<ul>") = 2

EntityOf(c) ==
    CASE c = "&" -> "&amp;"
      [] c = "<" -> "&lt;"
      [] c = ">" -> "&gt;"
      [] c = "\"" -> "&quot;"
      [] c = "'" -> "&#039;"
      [] OTHER -> c

\* every character of s replaced by its entity, in one pass
EscapedOnce(s) == Join([i \in 1..Len(s) |-> EntityOf(CharAt(s, i))], "")

IsBlank(line) == \A i \in 1..Len(line) : CharAt(line, i) \in WhiteSpace

HasPrefix(line, prefix) == Len(line) >= Len(prefix) /\ SubSeq(line, 1, Len(prefix)) = prefix

TagOf(line) ==
    CASE HasPrefix(line, "### ") -> "h3"
      [] HasPrefix(line, "## ") -> "h2"
      [] HasPrefix(line, "# ") -> "h1"
      [] HasPrefix(line, "- ") -> "li"
      [] OTHER -> "p"

TextOf(line) ==
    CASE TagOf(line) = "h3" -> SubSeq(line, 5, Len(line))
      [] TagOf(line) = "h2" -> SubSeq(line, 4, Len(line))
      [] TagOf(line) \in {"h1", "li"} -> SubSeq(line, 3, Len(line))
      [] OTHER -> line

IsBreak(line) == TagOf(line) = "p" /\ IsBlank(line)

ExpectedFragment(line) ==
    IF IsBreak(line) THEN "<br/>"
    ELSE "<" \o TagOf(line) \o ">" \o EscapedOnce(TextOf(line)) \o "</" \o TagOf(line) \o ">"

\* the tags the renderer emits for the text
TagCount ==
    Sum([i \in 1..Len(Lines) |-> IF IsBreak(Lines[i]) THEN 1 ELSE 2]) + 2 * Runs

RECURSIVE Without(_, _)
Without(s, sub) ==
    IF Len(s) < Len(sub) THEN s
    ELSE IF SubSeq(s, 1, Len(sub)) = sub THEN Without(SubSeq(s, Len(sub) + 1, Len(s)), sub)
    ELSE CharAt(s, 1) \o Without(SubSeq(s, 2, Len(s)), sub)

\* C9: every &, <, >, " and ' of the line content is escaped exactly once
\* (&amp; &lt; &gt; &quot; &#039;) before it is wrapped in its tag, so the
\* only raw < and > of the output are those of the renderer's own tags and
\* <script> never appears unescaped.
C9_EscapedExactlyOnce ==
    Rendered =>
        /\ Without(Without(html.s, "<ul>"), "</ul>")
             = Join([i \in 1..Len(Lines) |-> ExpectedFragment(Lines[i])], "")
        /\ CountSub(html.s, "<") = TagCount
        /\ CountSub(html.s, ">") = TagCount
        /\ CountSub(html.s, "\"") = 0 /\ CountSub(html.s, "'") = 0
        /\ CountSub(html.s, "<script>") = 0

\* a text with <script>, with an entity of its own and with quotes
C9_Witness ==
    /\ Rendered
    /\ CountSub(content, "<script>") > 0
    /\ CountSub(content, "&amp;") > 0
    /\ CountSub(content, "'") > 0
    /\ CountSub(html.s, "&lt;script&gt;") > 0
    /\ CountSub(html.s, "&amp;amp;") > 0

-----------------------------------------------------------------------------
(* Properties of the route (SpecServer).                                    *)

\* a body the types of the route describe: tasks absent or an array of objects
WellTyped(body) ==
    \/ body.json # "object"
    \/ body.tasks.t \in {"undefined", "null"}
    \/ /\ body.tasks.t = "array"
       /\ \A i \in 1..Len(body.tasks.items) : body.tasks.items[i].t = "object"

\* the call to the model service failed: no credential, the fetch threw, or
\* the status was not a success
ServiceFailed ==
    \/ call.apiKey \in {Undefined, Str("")}
    \/ call.up.kind \in {"network", "status"}

\* C1: whenever the call to the model service fails (network error, status
\* that is no success, absent credential) the route answers with the fallback
\* response {provider: "fallback", suggestions}, never with {error} and 500.
C1_FailureFallsBack ==
    (Responded /\ WellTyped(call.body) /\ ServiceFailed) =>
        /\ response.status = 200
        /\ response.provider = Str("fallback")
        /\ response.suggestions # NoBundle
        /\ response.error = Undefined

\* C2: a malformed body (unparseable, tasks missing or no array, health
\* missing or no object, entries lacking fields) is not rejected: the answer
\* is a 2xx carrying a suggestion bundle or the model's text.
C2_MalformedBodyCoerced ==
    (Responded /\ call.up.kind \notin {"network", "badjson"}) =>
        /\ response.status = 200
        /\ \/ response.provider = Str("fallback") /\ response.suggestions # NoBundle
           \/ response.provider = Str("openai") /\ response.content.t = "string"

-----------------------------------------------------------------------------
(* Properties of the planner card (Spec).                                   *)

IsPermutation(a, b) ==
    /\ Len(a) = Len(b)
    /\ \E f \in [1..Len(a) -> 1..Len(a)] :
          /\ \A i, j \in 1..Len(a) : i # j => f[i] # f[j]
          /\ \A i \in 1..Len(a) : a[i] = b[f[i]]

\* ids are handed out in insertion order
InInsertionOrder(ts) == \A i \in 1..Len(ts) : ts[i].id = i

ByScoreThenInsertion(ps) ==
    \A i, j \in 1..Len(ps) :
        i < j =>
            LET si == 2 * ps[i].impact - ps[i].effort + (IF ps[i].due = "" THEN 0 ELSE 1)
                sj == 2 * ps[j].impact - ps[j].effort + (IF ps[j].due = "" THEN 0 ELSE 1)
            IN  si > sj \/ (si = sj /\ ps[i].id < ps[j].id)

IsAppend(old, new) ==
    /\ Len(new) = Len(old) + 1
    /\ SubSeq(new, 1, Len(old)) = old
    /\ new[Len(new)].done = FALSE
    /\ new[Len(new)].title \notin {"", " ", "  "}

IsToggle(old, new) ==
    /\ Len(new) = Len(old)
    /\ \E k \in 1..Len(old) :
          /\ new[k] = [old[k] EXCEPT !.done = ~old[k].done]
          /\ \A i \in 1..Len(old) : i # k => new[i] = old[i]

\* C7: the stored list stays in insertion order (addTask appends, a blank
\* title adds nothing, toggleDone flips one `done` flag and nothing else) and
\* `prioritized` is a permutation of it in descending order of
\* score = 2*impact - effort + (1 if due), equal scores in insertion order.
C7_StoredOrderAndPriority ==
    /\ [](/\ InInsertionOrder(tasks)
          /\ IsPermutation(prioritized, tasks)
          /\ ByScoreThenInsertion(prioritized))
    /\ [][tasks' # tasks => IsAppend(tasks, tasks') \/ IsToggle(tasks, tasks')]_vars
    /\ [][Trim(taskTitle) = "" => Len(tasks') = Len(tasks)]_vars

\* two stored tasks of equal score and different effort, the first ticked
\* off, displayed in insertion order
C7_Witness ==
    /\ Len(tasks) = 2
    /\ tasks[1].done
    /\ tasks[1].effort # tasks[2].effort
    /\ 2 * tasks[1].impact - tasks[1].effort + 1 = 2 * tasks[2].impact - tasks[2].effort
    /\ tasks[1].due # "" /\ tasks[2].due = ""
    /\ prioritized = tasks

-----------------------------------------------------------------------------
(* Properties of the insights card (FairInsights).                          *)

Finished == ~loading /\ (aiResponse # Null \/ error # Null)

ModelTexts == {up.content : up \in {u \in ClientUpstream : Truthy(u.content)}}

IsRenderedBundle(text) ==
    /\ text.t = "string"
    /\ Len(text.s) > Len(Plan)
    /\ SubSeq(text.s, 1, 22) = "## Personalized Plan\n\n"
    /\ SubSeq(text.s, Len(text.s) - Len(Filler) - 1, Len(text.s)) = "- " \o Filler

OneErrorMessage == error.t = "string" /\ error.s # "" /\ aiResponse = Null

\* C10 as claimed, its outcome: a finished request shows the model's text or
\* the rendered fallback bundle, or else a single error message.
C10_TextBundleOrError ==
    Finished =>
        \/ error = Null /\ aiResponse \in ModelTexts
        \/ error = Null /\ IsRenderedBundle(aiResponse)
        \/ OneErrorMessage

\* C10 as amended: every request started by getInsights completes (loading
\* returns to false); a finished request shows the model's text, the rendered
\* fallback bundle, the placeholder "No insights returned." (a reply with
\* neither text nor bundle), or else a single error message; no step of the
\* request changes the task list or the health record.
C10_RequestCompletes ==
    /\ loading ~> ~loading
    /\ [](Finished =>
            \/ error = Null /\ aiResponse \in ModelTexts
            \/ error = Null /\ IsRenderedBundle(aiResponse)
            \/ error = Null /\ aiResponse = Str("No insights returned.")
            \/ OneErrorMessage)
    /\ [][loading' # loading => tasks' = tasks /\ health' = health]_vars

\* a request that failed, after the user changed tasks and health
C10_Witness ==
    /\ Finished /\ OneErrorMessage
    /\ Len(tasks) > 0 /\ health # DefaultHealth

-----------------------------------------------------------------------------
(* Properties of the fallback generator (SpecFallback).                     *)

\* the k-th smallest element of a set of indexes
Kth(S, k) == CHOOSE i \in S : Cardinality({j \in S : j < i}) = k - 1

IncompleteIdx(ts) == {i \in 1..Len(ts) : ts[i].done \notin {True}}
LowEffortIdx(ts) == {i \in IncompleteIdx(ts) : ts[i].effort.n <= 2}

\* the score of section 4.1 on a well-typed entry
EntryScore(t) == 2 * t.impact.n - t.effort.n + (IF t.due.t = "string" THEN 1 ELSE 0)

\* the pool task a line of `top` was made from (titles are unique in the pool)
TaskOfLine(line) ==
    CHOOSE t \in TaskPool :
        line = t.title.s \o " ? do soon (impact " \o NatToString(t.impact.n)
                 \o ", effort " \o NatToString(t.effort.n) \o ")"

\* C3: `top` holds incomplete tasks only, at most 5 of them, in descending
\* order of score = 2*impact - effort + (1 if due), so that of two tasks with
\* equal 2*impact - effort the one with a due date comes first.
C3_TopByClientScore ==
    Generated =>
        /\ Len(bundle.top) = Min(5, Cardinality(IncompleteIdx(args.tasks)))
        /\ \A i \in 1..Len(bundle.top) : TaskOfLine(bundle.top[i]).done # True
        /\ \A i, j \in 1..Len(bundle.top) :
              i < j => \/ EntryScore(TaskOfLine(bundle.top[i]))
                            > EntryScore(TaskOfLine(bundle.top[j]))
                       \/ /\ EntryScore(TaskOfLine(bundle.top[i]))
                               = EntryScore(TaskOfLine(bundle.top[j]))
                          /\ TaskOfLine(bundle.top[j]).due.t = "string"
                                => TaskOfLine(bundle.top[i]).due.t = "string"

\* the metric is absent or is no number
Invalid(v) == v.t \in {"undefined", "null"} \/ (v.t = "string" /\ ~IsDigits(v.s))
ValueOf(v) == IF v.t = "number" THEN v.n ELSE ParseDigits(v.s)
Actionable(v, target) == Invalid(v) \/ ValueOf(v) < target

\* C4: a metric that is missing or no valid number counts as 0 and selects
\* the below-threshold tip; a valid one selects it exactly when it is
\* strictly below its threshold (7, 8, 8000, 2).
C4_InvalidMetricIsZero ==
    Generated =>
        LET tips == SubSeq(bundle.habits, Len(bundle.habits) - 3, Len(bundle.habits))
        IN  /\ tips[1] = (IF Actionable(args.health.sleepHours, 7) THEN SleepLow ELSE SleepOk)
            /\ tips[2] = (IF Actionable(args.health.waterCups, 8) THEN WaterLow ELSE WaterOk)
            /\ tips[3] = (IF Actionable(args.health.steps, 8000) THEN StepsLow ELSE StepsOk)
            /\ tips[4] = (IF Actionable(args.health.breaksPerHour, 2) THEN BreaksLow ELSE BreaksOk)

\* C5: quickWins has exactly 5 entries: a "Start: <title> (<=10m setup)" line
\* for each of the first 5 incomplete tasks of effort <= 2 in insertion order,
\* then the filler; with no tasks, 5 fillers and an empty `top`.
C5_QuickWinsExactlyFive ==
    Generated =>
        /\ Len(bundle.quickWins) = 5
        /\ \A i \in 1..5 :
              bundle.quickWins[i] =
                IF i <= Cardinality(LowEffortIdx(args.tasks))
                THEN "Start: " \o args.tasks[Kth(LowEffortIdx(args.tasks), i)].title.s
                        \o " (<=10m setup)"
                ELSE "Inbox sweep: archive or assign 10 emails."
        /\ args.tasks = <<>> =>
              /\ bundle.top = <<>>
              /\ \A i \in 1..5 : bundle.quickWins[i] = Filler

\* more low-effort incomplete tasks than quick wins, and the result cut to 5
C5_Witness ==
    /\ Generated
    /\ Cardinality(LowEffortIdx(args.tasks)) > 5
    /\ Len(bundle.quickWins) = 5 /\ bundle.quickWins[5] # Filler

MetricTipsAt(hs, k) ==
    /\ hs[k] \in {SleepLow, SleepOk}
    /\ hs[k + 1] \in {WaterLow, WaterOk}
    /\ hs[k + 2] \in {StepsLow, StepsOk}
    /\ hs[k + 3] \in {BreaksLow, BreaksOk}

\* C6 as claimed: 4 habits (sleep, water, steps, breaks) without a note, and 5
\* whenever a note is supplied, the empty text included, "(Note) <note>" first.
C6_NoteAlwaysPrepended ==
    Generated =>
        IF args.note = Undefined
        THEN Len(bundle.habits) = 4 /\ MetricTipsAt(bundle.habits, 1)
        ELSE /\ Len(bundle.habits) = 5
             /\ bundle.habits[1] = "(Note) " \o args.note.s
             /\ MetricTipsAt(bundle.habits, 2)

\* C6 as amended: 5 habits exactly when the note is a non-empty text; an
\* absent note and the empty text both give the 4 metric habits alone.
C6_NonEmptyNotePrepended ==
    Generated =>
        IF args.note = Undefined \/ args.note.s = ""
        THEN Len(bundle.habits) = 4 /\ MetricTipsAt(bundle.habits, 1)
        ELSE /\ Len(bundle.habits) = 5
             /\ bundle.habits[1] = "(Note) " \o args.note.s
             /\ MetricTipsAt(bundle.habits, 2)

\* a call with a non-empty note, answered with 5 habits
C6_Witness ==
    /\ Generated
    /\ args.note = Str("AI error: x")
    /\ Len(bundle.habits) = 5

====
